---- MODULE Spec2Model ----
(***************************************************************************)
(* MemeFiContract (src/src/lib.rs): a NEAR contract keeping meme records,  *)
(* per-meme like sets and comment logs, and per-owner aggregate counters.  *)
(* Every public method is one atomic call: a panic reverts the call, so a  *)
(* rejected call leaves every store as it was.                             *)
(***************************************************************************)
EXTENDS Integers, Sequences, FiniteSets, TLC

\* ---------------------------------------------------------------- bounds
NumIds == 2
NumAccounts == 2
MaxTime == 1
MaxComments == 1
MaxLog == 2
MaxListed == 102

\* ------------------------------------------------------ program constants
MaxRoyalty == 100
MaxCommentLen == 500
U8Max == 255
DefaultLimit == 50
MaxLimit == 100
Limb == 65536

\* --------------------------------------------------------------- inputs
MemeIds == 1..NumIds
Accounts == 1..NumAccounts
Royalties == {MaxRoyalty, MaxRoyalty + 1, U8Max}
MediaUrls == {"url"}
Titles == {"title"}
Descriptions == {"desc"}

\* A String is held run-length encoded: a sequence of runs, each a character
\* repeated n >= 1 times. Each character has a UTF-8 width and is or is not
\* Unicode white space: "sp" is U+0020, "a" an ASCII letter, "e2" a two-byte
\* letter, "ws3" the three-byte space U+3000.
Chars == {"sp", "a", "e2", "ws3"}
utf8_len(c) == CASE c = "sp" -> 1 [] c = "a" -> 1 [] c = "e2" -> 2 [] c = "ws3" -> 3
is_whitespace(c) == c \in {"sp", "ws3"}
Run(c, n) == [ch |-> c, n |-> n]
Texts ==
  { <<>>, <<Run("sp", 1)>>, <<Run("a", 1)>>,
    <<Run("sp", 1), Run("a", 1), Run("ws3", 1)>>,
    <<Run("a", MaxCommentLen + 1)>>,
    <<Run("e2", MaxCommentLen \div 2 + 1)>>,
    <<Run("sp", 1), Run("a", MaxCommentLen - 1), Run("sp", 1)>> }

\* The texts of the specification that follows the comment logs further:
\* those above and one of exactly the longest accepted length.
LogTexts == Texts \cup { <<Run("a", MaxCommentLen)>> }

\* ------------------------------------------------------- panic messages
Ok == "ok"
InvalidRoyalty == "Royalty must be between 0 and 100"
DuplicateIdentifier == "Meme ID already exists"
NotFound == "Meme not found"
AlreadyLiked == "User already liked this meme"
NoLikeHistory == "No likes found for meme"
NotLiked == "User has not liked this meme"
EmptyComment == "Comment text cannot be empty"
CommentTooLong == "Comment text too long (max 500 characters)"

\* ---------------------------------------------------------------- state
VARIABLES
  memes,            \* LookupMap<String, MemeNFT>
  all_memes,        \* Vector<String>
  likes,            \* LookupMap<String, UnorderedSet<String>>
  comments,         \* LookupMap<String, Vector<Comment>>
  listings,         \* LookupMap<String, u128>
  user_stats,       \* LookupMap<String, UserStats>
  block_timestamp,  \* env::block_timestamp() of the block being executed
  outcome,          \* the last call: its method and how it ended
  ever_liked,       \* history: the memes that some call has liked successfully
  page              \* the last get_all_memes call: its arguments and what it returned

stores == <<memes, all_memes, likes, comments, listings, user_stats>>
vars == <<memes, all_memes, likes, comments, listings, user_stats,
          block_timestamp, outcome, ever_liked, page>>

\* ------------------------------------------------------ collection helpers
MapInsert(m, k, v) == [x \in DOMAIN m \cup {k} |-> IF x = k THEN v ELSE m[x]]
Empty == [x \in {} |-> 0]

\* u32 += 1. The counters count elements of the bounded collections below, so
\* they stay far from the u32 range and the addition never overflows here.
add_one(x) == x + 1
saturating_sub(x) == IF x = 0 THEN 0 ELSE x - 1

\* Mutant: the element is put in front of the others.
vec_push_front(v, x) == <<x>> \o v

\* Vector::push
vec_push(v, x) == Append(v, x)

DefaultStats == [total_likes |-> 0, total_comments |-> 0, total_earnings |-> 0]
user_stats_get(owner) == IF owner \in DOMAIN user_stats THEN user_stats[owner] ELSE DefaultStats

likes_get_or_new(meme_id) == IF meme_id \in DOMAIN likes THEN likes[meme_id] ELSE {}
comments_get_or_new(meme_id) == IF meme_id \in DOMAIN comments THEN comments[meme_id] ELSE <<>>

\* str::trim: the slice from the first to the last character that is not white space.
trim(text) ==
  LET keep == {i \in 1..Len(text) : ~ is_whitespace(text[i].ch)}
      first == CHOOSE i \in keep : \A j \in keep : i <= j
      last == CHOOSE i \in keep : \A j \in keep : j <= i
  IN IF keep = {} THEN <<>> ELSE SubSeq(text, first, last)

\* String::len: the length in bytes of the UTF-8 encoding.
RECURSIVE str_len(_)
str_len(text) ==
  IF text = <<>> THEN 0 ELSE utf8_len(Head(text).ch) * Head(text).n + str_len(Tail(text))

Panic(op, msg) ==
  /\ outcome' = [op |-> op, status |-> msg]
  /\ UNCHANGED <<stores, block_timestamp, ever_liked, page>>

Done(op) == outcome' = [op |-> op, status |-> Ok]

\* ------------------------------------------------------------------ Init
Init ==
  /\ memes = Empty
  /\ all_memes = <<>>
  /\ likes = Empty
  /\ comments = Empty
  /\ listings = Empty
  /\ user_stats = Empty
  /\ block_timestamp = 0
  /\ outcome = [op |-> "new", status |-> Ok]
  /\ ever_liked = {}
  /\ page = [from_index |-> <<>>, limit |-> <<>>, status |-> "none", result |-> <<>>]

\* ------------------------------------------------------------- mint_meme
\* Mutant: the royalty is only held to the range of u8.
royalty_ok_u8(royalty) == royalty <= U8Max

royalty_ok(royalty) == royalty <= MaxRoyalty

\* Mutant: the duplicate check is missing.
id_exists_never(id) == FALSE

id_exists(id) == id \in DOMAIN memes

\* Mutant: a fresh record is stamped with the current block time.
new_meme_stamped(id, creator, media_url, title, description, royalty) ==
  [ id |-> id, owner_id |-> creator, creator_id |-> creator,
    media_url |-> media_url, title |-> title, description |-> description,
    royalty |-> royalty, likes_count |-> 0, comments_count |-> 0,
    last_like_timestamp |-> block_timestamp ]

new_meme(id, creator, media_url, title, description, royalty) ==
  [ id |-> id, owner_id |-> creator, creator_id |-> creator,
    media_url |-> media_url, title |-> title, description |-> description,
    royalty |-> royalty, likes_count |-> 0, comments_count |-> 0,
    last_like_timestamp |-> 0 ]

mint_meme(creator, id, media_url, title, description, royalty) ==
  IF ~ royalty_ok(royalty) THEN Panic("mint_meme", InvalidRoyalty)
  ELSE IF id_exists(id) THEN Panic("mint_meme", DuplicateIdentifier)
  ELSE /\ memes' = MapInsert(memes, id, new_meme(id, creator, media_url, title, description, royalty))
       /\ all_memes' = vec_push(all_memes, id)
       /\ Done("mint_meme")
       /\ UNCHANGED <<likes, comments, listings, user_stats, block_timestamp, ever_liked, page>>

\* ------------------------------------------------------------- like_meme
\* Mutant: membership is never found.
set_contains_never(liked_users, user) == FALSE

set_contains(liked_users, user) == user \in liked_users

set_insert(liked_users, liker) == liked_users \cup {liker}

\* Mutant: the like is counted but not stamped.
liked_meme_unstamped(meme, now) == [meme EXCEPT !.likes_count = add_one(@)]

liked_meme(meme, now) ==
  [meme EXCEPT !.likes_count = add_one(@), !.last_like_timestamp = now]

\* Mutant: the owner's total is written back without the increment.
stats_like_same(stats) == stats

\* Mutant: the like is added to both totals.
stats_like_both(stats) ==
  [stats EXCEPT !.total_likes = add_one(@), !.total_comments = add_one(@)]

stats_like(stats) == [stats EXCEPT !.total_likes = add_one(@)]

like_meme(liker, meme_id) ==
  IF meme_id \notin DOMAIN memes THEN Panic("like_meme", NotFound)
  ELSE LET meme == memes[meme_id]
           liked_users == likes_get_or_new(meme_id)
       IN IF set_contains(liked_users, liker) THEN Panic("like_meme", AlreadyLiked)
          ELSE /\ likes' = MapInsert(likes, meme_id, set_insert(liked_users, liker))
               /\ memes' = MapInsert(memes, meme_id, liked_meme(meme, block_timestamp))
               /\ user_stats' = MapInsert(user_stats, meme.owner_id,
                                          stats_like(user_stats_get(meme.owner_id)))
               /\ ever_liked' = ever_liked \cup {meme_id}
               /\ Done("like_meme")
               /\ UNCHANGED <<all_memes, comments, listings, block_timestamp, page>>

\* ----------------------------------------------------------- unlike_meme
\* Mutant: the set is written back with the caller still in it.
set_remove_none(liked_users, user) == liked_users

set_remove(liked_users, user) == liked_users \ {user}

\* Mutant: the record is written back without the decrement.
unliked_meme_same(meme) == meme

\* Mutant: the decrement also clears the time of the last like.
unliked_meme_reset(meme) ==
  [meme EXCEPT !.likes_count = saturating_sub(@), !.last_like_timestamp = 0]

unliked_meme(meme) == [meme EXCEPT !.likes_count = saturating_sub(@)]

\* Mutant: the owner's total is written back without the decrement.
stats_unlike_same(stats) == stats

stats_unlike(stats) == [stats EXCEPT !.total_likes = saturating_sub(@)]

\* Mutant: the caller is never found missing from the set.
has_not_liked_never(liked_users, user) == FALSE

has_not_liked(liked_users, user) == ~ set_contains(liked_users, user)

unlike_meme(user, meme_id) ==
  IF meme_id \notin DOMAIN memes THEN Panic("unlike_meme", NotFound)
  ELSE IF meme_id \notin DOMAIN likes THEN Panic("unlike_meme", NoLikeHistory)
  ELSE LET meme == memes[meme_id]
           liked_users == likes[meme_id]
       IN IF has_not_liked(liked_users, user) THEN Panic("unlike_meme", NotLiked)
          ELSE /\ likes' = MapInsert(likes, meme_id, set_remove(liked_users, user))
               /\ memes' = MapInsert(memes, meme_id, unliked_meme(meme))
               /\ user_stats' = MapInsert(user_stats, meme.owner_id,
                                          stats_unlike(user_stats_get(meme.owner_id)))
               /\ Done("unlike_meme")
               /\ UNCHANGED <<all_memes, comments, listings, block_timestamp, ever_liked, page>>

\* ---------------------------------------------------------- comment_meme
\* Mutant: the text is stored as it was given.
new_comment_raw(commenter, text, now) ==
  [user_id |-> commenter, text |-> text, timestamp |-> now]

new_comment(commenter, text, now) ==
  [user_id |-> commenter, text |-> trim(text), timestamp |-> now]

\* Mutant: the record is written back without the increment.
commented_meme_same(meme) == meme

commented_meme(meme) == [meme EXCEPT !.comments_count = add_one(@)]

stats_comment(stats) == [stats EXCEPT !.total_comments = add_one(@)]

\* Mutant: the length limit is applied to the trimmed text.
len_ok_trimmed(text) == str_len(trim(text)) <= MaxCommentLen

len_ok(text) == str_len(text) <= MaxCommentLen

\* Mutant: the text is validated before the meme is looked up.
comment_meme_text_first(commenter, meme_id, text) ==
  IF trim(text) = <<>> THEN Panic("comment_meme", EmptyComment)
  ELSE IF ~ len_ok(text) THEN Panic("comment_meme", CommentTooLong)
  ELSE IF meme_id \notin DOMAIN memes THEN Panic("comment_meme", NotFound)
  ELSE LET meme == memes[meme_id]
           log == comments_get_or_new(meme_id)
       IN /\ comments' = MapInsert(comments, meme_id,
                                   vec_push(log, new_comment(commenter, text, block_timestamp)))
          /\ memes' = MapInsert(memes, meme_id, commented_meme(meme))
          /\ user_stats' = MapInsert(user_stats, meme.owner_id,
                                     stats_comment(user_stats_get(meme.owner_id)))
          /\ Done("comment_meme")
          /\ UNCHANGED <<all_memes, likes, listings, block_timestamp, ever_liked, page>>

comment_meme(commenter, meme_id, text) ==
  IF meme_id \notin DOMAIN memes THEN Panic("comment_meme", NotFound)
  ELSE IF trim(text) = <<>> THEN Panic("comment_meme", EmptyComment)
  ELSE IF ~ len_ok(text) THEN Panic("comment_meme", CommentTooLong)
  ELSE LET meme == memes[meme_id]
           log == comments_get_or_new(meme_id)
       IN /\ comments' = MapInsert(comments, meme_id,
                                   vec_push(log, new_comment(commenter, text, block_timestamp)))
          /\ memes' = MapInsert(memes, meme_id, commented_meme(meme))
          /\ user_stats' = MapInsert(user_stats, meme.owner_id,
                                     stats_comment(user_stats_get(meme.owner_id)))
          /\ Done("comment_meme")
          /\ UNCHANGED <<all_memes, likes, listings, block_timestamp, ever_liked, page>>

\* The model stops a log from growing past cap entries; the code has no limit.
log_has_room(meme_id, cap) == Len(comments_get_or_new(meme_id)) < cap

\* ------------------------------------------------------------ the host
\* The host executes calls block by block; a later block has a later timestamp.
next_block ==
  /\ block_timestamp < MaxTime
  /\ block_timestamp' = block_timestamp + 1
  /\ UNCHANGED <<stores, outcome, ever_liked, page>>

\* ---------------------------------------------------------------- views
get_meme(id) == IF id \in DOMAIN memes THEN <<memes[id]>> ELSE <<>>
get_memes_count == Len(all_memes)
get_comments(meme_id) == IF meme_id \in DOMAIN comments THEN comments[meme_id] ELSE <<>>
get_likes(meme_id) == IF meme_id \in DOMAIN likes THEN Cardinality(likes[meme_id]) ELSE 0

\* -------------------------------------------------------- get_all_memes
\* A u64 is held as four 16-bit limbs, the least significant first.
U64(n) == <<n % Limb, (n \div Limb) % Limb, 0, 0>>
U64Max == <<Limb - 1, Limb - 1, Limb - 1, Limb - 1>>
u64_minus(a, k) == <<a[1] - k, a[2], a[3], a[4]>>
u64_to_int(a) == a[1] + Limb * a[2]

\* a + b on u64: the sum modulo 2^64, and whether it went past 2^64 - 1.
u64_add(a, b) ==
  LET s1 == a[1] + b[1]
      s2 == a[2] + b[2] + s1 \div Limb
      s3 == a[3] + b[3] + s2 \div Limb
      s4 == a[4] + b[4] + s3 \div Limb
  IN [value |-> <<s1 % Limb, s2 % Limb, s3 % Limb, s4 % Limb>>, overflow |-> s4 >= Limb]

u64_lt(a, b) ==
  \/ a[4] < b[4]
  \/ a[4] = b[4] /\ a[3] < b[3]
  \/ a[4] = b[4] /\ a[3] = b[3] /\ a[2] < b[2]
  \/ a[4] = b[4] /\ a[3] = b[3] /\ a[2] = b[2] /\ a[1] < b[1]

u64_min(a, b) == IF u64_lt(b, a) THEN b ELSE a

\* Option<u64>: <<>> is None, <<v>> is Some(v).
unwrap_or(opt, default) == IF opt = <<>> THEN default ELSE opt[1]

AddOverflow == "attempt to add with overflow"

\* The loop over i in from..end; end is at most the registry's length.
RECURSIVE collect(_, _)
collect(i, end) ==
  IF i >= end THEN <<>>
  ELSE (IF i < Len(all_memes) /\ all_memes[i + 1] \in DOMAIN memes
        THEN <<memes[all_memes[i + 1]]>> ELSE <<>>) \o collect(i + 1, end)

page_of(from, end) ==
  IF u64_lt(from, end) THEN collect(u64_to_int(from), u64_to_int(end)) ELSE <<>>

\* from_index + limit is a plain u64 addition: when the sum passes 2^64 - 1 a
\* build with overflow checks panics and a build without them wraps.
get_all_memes(from_index, limit) ==
  LET from == unwrap_or(from_index, U64(0))
      lim == u64_min(unwrap_or(limit, U64(DefaultLimit)), U64(MaxLimit))
      sum == u64_add(from, lim)
      end == u64_min(sum.value, U64(Len(all_memes)))
  IN /\ \/ /\ sum.overflow
           /\ page' = [from_index |-> from_index, limit |-> limit,
                       status |-> AddOverflow, result |-> <<>>]
        \/ page' = [from_index |-> from_index, limit |-> limit,
                    status |-> Ok, result |-> page_of(from, end)]
     /\ UNCHANGED <<stores, block_timestamp, outcome, ever_liked>>

FromInputs ==
  { <<>>, <<U64(0)>>, <<U64(1)>>, <<U64(DefaultLimit)>>, <<U64(MaxLimit)>>,
    <<U64(MaxLimit + 1)>>, <<U64(MaxLimit + 2)>>, <<U64(Limb)>>,
    <<u64_minus(U64Max, MaxLimit)>>, <<u64_minus(U64Max, 1)>>, <<U64Max>> }
LimitInputs ==
  { <<>>, <<U64(0)>>, <<U64(1)>>, <<U64(DefaultLimit)>>, <<U64(MaxLimit)>>,
    <<U64(MaxLimit + 1)>>, <<U64Max>> }

\* ------------------------------------------------------------------ Next
Next ==
  \/ \E creator \in Accounts, id \in MemeIds, media_url \in MediaUrls, title \in Titles,
        description \in Descriptions, royalty \in Royalties :
       mint_meme(creator, id, media_url, title, description, royalty)
  \/ \E liker \in Accounts, meme_id \in MemeIds : like_meme(liker, meme_id)
  \/ \E user \in Accounts, meme_id \in MemeIds : unlike_meme(user, meme_id)
  \/ \E commenter \in Accounts, meme_id \in MemeIds, text \in Texts :
       /\ comment_meme(commenter, meme_id, text)
       /\ outcome'.status = Ok => log_has_room(meme_id, MaxComments)
  \/ next_block

Spec == Init /\ [][Next]_vars

\* Mints and comments only, with logs of up to MaxLog comments.
NextComments ==
  \/ \E creator \in Accounts, id \in MemeIds, media_url \in MediaUrls, title \in Titles,
        description \in Descriptions, royalty \in Royalties :
       mint_meme(creator, id, media_url, title, description, royalty)
  \/ \E commenter \in Accounts, meme_id \in MemeIds, text \in LogTexts :
       /\ comment_meme(commenter, meme_id, text)
       /\ outcome'.status = Ok => log_has_room(meme_id, MaxLog)
  \/ next_block

SpecComments == Init /\ [][NextComments]_vars

\* Mints that fill the registry up to MaxListed entries, the accounts taking
\* turns, and then get_all_memes calls. A view writes nothing, so reading
\* only after the last mint loses no behaviour of the contract.
NextList ==
  \/ /\ Len(all_memes) < MaxListed
     /\ page.status = "none"
     /\ mint_meme((Len(all_memes) % NumAccounts) + 1, Len(all_memes) + 1,
                  "url", "title", "desc", MaxRoyalty)
  \/ \E from_index \in FromInputs, limit \in LimitInputs : get_all_memes(from_index, limit)

SpecList == Init /\ [][NextList]_vars

\* ------------------------------------------------------------ properties
Range(seq) == {seq[i] : i \in 1..Len(seq)}
OwnedBy(owner) == {id \in DOMAIN memes : memes[id].owner_id = owner}
Liked(meme_id, user) == meme_id \in DOMAIN likes /\ user \in likes[meme_id]

\* The number of characters of a text (the code never computes it).
RECURSIVE chars_count(_)
chars_count(text) == IF text = <<>> THEN 0 ELSE Head(text).n + chars_count(Tail(text))

RECURSIVE SumOf(_, _)
SumOf(ids, field) ==
  IF ids = {} THEN 0
  ELSE LET id == CHOOSE x \in ids : TRUE
       IN memes[id][field] + SumOf(ids \ {id}, field)

\* C1: in every reachable state, for every minted meme, likes_count equals the
\* number of identities in the meme's like set (0 when no set exists yet), and
\* get_likes returns that same number.
C1_LikesCountIsCardinality ==
  \A id \in DOMAIN memes :
    /\ memes[id].likes_count = Cardinality(IF id \in DOMAIN likes THEN likes[id] ELSE {})
    /\ get_likes(id) = memes[id].likes_count

C1_Witness ==
  /\ outcome = [op |-> "unlike_meme", status |-> Ok]
  /\ \E id \in DOMAIN memes : memes[id].likes_count = 1 /\ Cardinality(likes[id]) = 1

\* C2: in every reachable state, for every minted meme, comments_count equals
\* the length of the sequence get_comments returns (empty when no log exists).
C2_CommentsCountIsLength ==
  \A id \in DOMAIN memes : memes[id].comments_count = Len(get_comments(id))

C2_Witness ==
  /\ outcome = [op |-> "comment_meme", status |-> Ok]
  /\ \E id \in DOMAIN memes : memes[id].comments_count = 1 /\ Len(comments[id]) = 1
  /\ \E id \in DOMAIN memes : memes[id].comments_count = 0 /\ id \notin DOMAIN comments

\* C3: in every reachable state, for every identity, the stored total_likes is
\* the sum of likes_count over the records the identity owns and the stored
\* total_comments the sum of comments_count over them; no stored stats count
\* as zero.
C3_AggregateAgreement ==
  \A owner \in Accounts :
    LET stats == IF owner \in DOMAIN user_stats THEN user_stats[owner]
                 ELSE [total_likes |-> 0, total_comments |-> 0]
    IN /\ stats.total_likes = SumOf(OwnedBy(owner), "likes_count")
       /\ stats.total_comments = SumOf(OwnedBy(owner), "comments_count")

C3_Witness ==
  /\ outcome = [op |-> "unlike_meme", status |-> Ok]
  /\ \E owner \in DOMAIN user_stats :
       /\ Cardinality(OwnedBy(owner)) = 2
       /\ \A id \in OwnedBy(owner) : memes[id].likes_count >= 1
       /\ user_stats[owner].total_likes >= 2
       /\ user_stats[owner].total_comments >= 1

\* C4 as stated: a mint call whose id is already in the record store fails with
\* DuplicateIdentifier whatever its royalty, and changes no store.
C4_DuplicateAlwaysDuplicateIdentifier ==
  [][ \A creator \in Accounts, id \in MemeIds, media_url \in MediaUrls, title \in Titles,
         description \in Descriptions, royalty \in Royalties :
        (id \in DOMAIN memes
           /\ mint_meme(creator, id, media_url, title, description, royalty))
        => (outcome'.status = DuplicateIdentifier /\ UNCHANGED stores) ]_vars

\* C4 amended: a mint call whose id is already in the record store always
\* fails and changes no store; it fails with DuplicateIdentifier when its
\* royalty is at most 100 and with InvalidRoyalty when its royalty exceeds 100.
\* A mint call that succeeds has an id that was in neither the record store
\* nor the registry, so no two successful mints produce the same identifier.
C4_DuplicateRejected ==
  [][ \A creator \in Accounts, id \in MemeIds, media_url \in MediaUrls, title \in Titles,
         description \in Descriptions, royalty \in Royalties :
        mint_meme(creator, id, media_url, title, description, royalty)
        => /\ id \in DOMAIN memes
              => /\ outcome'.status =
                      (IF royalty <= 100 THEN DuplicateIdentifier ELSE InvalidRoyalty)
                 /\ UNCHANGED stores
           /\ outcome'.status = Ok
              => id \notin DOMAIN memes /\ id \notin Range(all_memes) ]_vars

C4_Witness ==
  /\ outcome = [op |-> "mint_meme", status |-> DuplicateIdentifier]
  /\ Len(all_memes) = Cardinality(DOMAIN memes)
  /\ memes /= Empty

\* C5: a mint call with royalty above 100 fails with InvalidRoyalty and changes
\* no store, and every stored record has a royalty from 0 to 100.
C5_RoyaltyBounded ==
  /\ [](\A id \in DOMAIN memes : memes[id].royalty \in 0..100)
  /\ [][ \A creator \in Accounts, id \in MemeIds, media_url \in MediaUrls, title \in Titles,
            description \in Descriptions, royalty \in Royalties :
           (royalty > 100
              /\ mint_meme(creator, id, media_url, title, description, royalty))
           => (outcome'.status = InvalidRoyalty /\ UNCHANGED stores) ]_vars

C5_Witness ==
  /\ outcome = [op |-> "mint_meme", status |-> InvalidRoyalty]
  /\ \E id \in DOMAIN memes : memes[id].royalty = 100

\* C6: a mint call with a fresh id and royalty at most 100 succeeds, stores a
\* record owned and created by the caller with both counters and
\* last_like_timestamp 0, appends the id as the last element of the registry,
\* and creates no like set, comment log or user-stats entry.
C6_MintCreatesRecord ==
  [][ \A creator \in Accounts, id \in MemeIds, media_url \in MediaUrls, title \in Titles,
         description \in Descriptions, royalty \in Royalties :
        (id \notin DOMAIN memes /\ royalty <= 100
           /\ mint_meme(creator, id, media_url, title, description, royalty))
        => /\ outcome'.status = Ok
           /\ DOMAIN memes' = DOMAIN memes \cup {id}
           /\ \A other \in DOMAIN memes : memes'[other] = memes[other]
           /\ memes'[id].id = id
           /\ memes'[id].owner_id = creator
           /\ memes'[id].creator_id = creator
           /\ memes'[id].media_url = media_url
           /\ memes'[id].title = title
           /\ memes'[id].description = description
           /\ memes'[id].royalty = royalty
           /\ memes'[id].likes_count = 0
           /\ memes'[id].comments_count = 0
           /\ memes'[id].last_like_timestamp = 0
           /\ Len(all_memes') = Len(all_memes) + 1
           /\ all_memes'[Len(all_memes')] = id
           /\ SubSeq(all_memes', 1, Len(all_memes)) = all_memes
           /\ UNCHANGED <<likes, comments, listings, user_stats>>
           /\ id \notin DOMAIN likes'
           /\ id \notin DOMAIN comments' ]_vars

C6_Witness ==
  /\ outcome = [op |-> "mint_meme", status |-> Ok]
  /\ block_timestamp = 1
  /\ Len(all_memes) = 2
  /\ all_memes[1] \in DOMAIN likes
  /\ all_memes[1] \in DOMAIN comments
  /\ all_memes[2] \notin DOMAIN likes
  /\ memes[all_memes[2]].last_like_timestamp = 0
  /\ user_stats /= Empty

\* C7: a like call on an existing meme by an identity that is in the meme's
\* like set fails with AlreadyLiked and changes no store.
C7_DoubleLikeRejected ==
  [][ \A liker \in Accounts, meme_id \in MemeIds :
        (meme_id \in DOMAIN memes /\ Liked(meme_id, liker) /\ like_meme(liker, meme_id))
        => (outcome'.status = AlreadyLiked /\ UNCHANGED stores) ]_vars

C7_Witness ==
  /\ outcome = [op |-> "like_meme", status |-> AlreadyLiked]
  /\ \E id \in DOMAIN memes : memes[id].likes_count = 1 /\ block_timestamp > memes[id].last_like_timestamp

\* C8: an unlike call on an existing meme by an identity that is not in the
\* meme's like set changes no store; it fails with the no-like-history message
\* when no call has ever liked the meme, and with NotLiked when some call has.
C8_UnlikeWithoutLikeRejected ==
  [][ \A user \in Accounts, meme_id \in MemeIds :
        (meme_id \in DOMAIN memes /\ ~ Liked(meme_id, user) /\ unlike_meme(user, meme_id))
        => /\ UNCHANGED stores
           /\ outcome'.status =
                (IF meme_id \in ever_liked THEN NotLiked ELSE NoLikeHistory) ]_vars

C8_Witness ==
  /\ outcome = [op |-> "unlike_meme", status |-> NotLiked]
  /\ \E id \in DOMAIN likes : likes[id] = {}

\* C9: a like call on an existing meme by an identity not in its like set (the
\* owner included) succeeds and in that step adds the caller to the like set,
\* raises likes_count by 1, sets last_like_timestamp to the block time and
\* raises the owner's total_likes by 1.
C9_LikeUpdatesAllStores ==
  [][ \A liker \in Accounts, meme_id \in MemeIds :
        (meme_id \in DOMAIN memes /\ ~ Liked(meme_id, liker) /\ like_meme(liker, meme_id))
        => LET owner == memes[meme_id].owner_id
               before == IF owner \in DOMAIN user_stats THEN user_stats[owner].total_likes ELSE 0
               members == IF meme_id \in DOMAIN likes THEN likes[meme_id] ELSE {}
           IN /\ outcome'.status = Ok
              /\ meme_id \in DOMAIN likes'
              /\ likes'[meme_id] = members \cup {liker}
              /\ memes'[meme_id].likes_count = memes[meme_id].likes_count + 1
              /\ memes'[meme_id].last_like_timestamp = block_timestamp
              /\ owner \in DOMAIN user_stats'
              /\ user_stats'[owner].total_likes = before + 1 ]_vars

C9_Witness ==
  /\ outcome = [op |-> "like_meme", status |-> Ok]
  /\ \E id \in DOMAIN likes :
       /\ memes[id].owner_id \in likes[id]
       /\ memes[id].likes_count = 2
       /\ memes[id].last_like_timestamp = 1

\* C10: each (meme, identity) pair is NotLiked while the meme is not minted and
\* right after its mint; it becomes Liked only by a successful like of that
\* identity on that meme and NotLiked again only by a successful unlike of that
\* identity on that meme; a successful like finds the pair NotLiked and a
\* successful unlike finds it Liked, so the two alternate starting with a like.
C10_LikeStateMachine ==
  [][ \A meme_id \in MemeIds, user \in Accounts :
        /\ meme_id \notin DOMAIN memes' => ~ Liked(meme_id, user)'
        /\ meme_id \notin DOMAIN memes => ~ Liked(meme_id, user)'
        /\ (~ Liked(meme_id, user) /\ Liked(meme_id, user)')
             => (like_meme(user, meme_id) /\ outcome'.status = Ok)
        /\ (Liked(meme_id, user) /\ ~ Liked(meme_id, user)')
             => (unlike_meme(user, meme_id) /\ outcome'.status = Ok)
        /\ (outcome' = [op |-> "like_meme", status |-> Ok] /\ like_meme(user, meme_id))
             => (~ Liked(meme_id, user) /\ Liked(meme_id, user)')
        /\ (outcome' = [op |-> "unlike_meme", status |-> Ok] /\ unlike_meme(user, meme_id))
             => (Liked(meme_id, user) /\ ~ Liked(meme_id, user)') ]_vars

C10_Witness ==
  /\ outcome = [op |-> "unlike_meme", status |-> Ok]
  /\ \E id \in ever_liked, user \in Accounts :
       /\ ~ Liked(id, user)
       /\ \E other \in Accounts : other /= user /\ Liked(id, other)

\* C11: last_like_timestamp is 0 while no call has liked the meme; a successful
\* like sets it to the block time of that call; every other step (unlike,
\* comment, mint, rejected call, a new block) leaves it as it was; with the
\* block time never going back it never decreases.
C11_LastLikeTimestamp ==
  [][ \A id \in MemeIds :
        /\ (id \in DOMAIN memes' /\ id \notin ever_liked')
             => memes'[id].last_like_timestamp = 0
        /\ id \in DOMAIN memes
             => LET liked_now == \E liker \in Accounts :
                                   /\ outcome' = [op |-> "like_meme", status |-> Ok]
                                   /\ like_meme(liker, id)
                IN /\ liked_now => memes'[id].last_like_timestamp = block_timestamp
                   /\ ~ liked_now
                        => memes'[id].last_like_timestamp = memes[id].last_like_timestamp
                   /\ memes'[id].last_like_timestamp >= memes[id].last_like_timestamp ]_vars

C11_Witness ==
  /\ outcome = [op |-> "unlike_meme", status |-> Ok]
  /\ \E id \in DOMAIN likes :
       /\ likes[id] = {}
       /\ memes[id].likes_count = 0
       /\ memes[id].last_like_timestamp = 1

\* C14: a comment call on an existing meme whose text is all white space, or
\* whose untrimmed text is longer than 500 (in characters or in bytes), is
\* rejected; the comment logs, the record's comments_count and the owner's
\* total_comments stay as they were and no log is created.
InvalidTexts ==
  { text \in Texts : \/ \A i \in 1..Len(text) : is_whitespace(text[i].ch)
                     \/ chars_count(text) > 500
                     \/ str_len(text) > 500 }

C14_InvalidCommentRejected ==
  [][ outcome'.op = "comment_meme" =>
        \A commenter \in Accounts, meme_id \in DOMAIN memes, text \in InvalidTexts :
          \/ /\ outcome'.status \in {EmptyComment, CommentTooLong}
             /\ comments' = comments
             /\ DOMAIN comments' = DOMAIN comments
             /\ memes'[meme_id].comments_count = memes[meme_id].comments_count
             /\ user_stats' = user_stats
          \/ ~ comment_meme(commenter, meme_id, text) ]_vars

C14_Witness ==
  /\ outcome = [op |-> "comment_meme", status |-> CommentTooLong]
  /\ \E id \in DOMAIN memes : id \notin DOMAIN comments /\ memes[id].comments_count = 0

\* C16 as stated: the limit counts characters of the untrimmed text. A comment
\* on an existing meme whose trimmed text is not empty is rejected with
\* CommentTooLong exactly when the untrimmed text has more than 500 characters.
TextsWithContent == { text \in Texts : \E i \in 1..Len(text) : ~ is_whitespace(text[i].ch) }

C16_LimitCountsCharacters ==
  [][ \A commenter \in Accounts, meme_id \in MemeIds, text \in TextsWithContent :
        (/\ outcome'.op = "comment_meme"
         /\ meme_id \in DOMAIN memes
         /\ comment_meme(commenter, meme_id, text))
        => /\ chars_count(text) > 500 => outcome'.status = CommentTooLong
           /\ chars_count(text) <= 500 => outcome'.status = Ok ]_vars

\* C17: like, unlike and comment calls that name an id not in the record store
\* fail with NotFound whatever their other arguments and change no store.
C17_AbsentMemeRejected ==
  [][ \A caller \in Accounts, meme_id \in MemeIds :
        (/\ meme_id \notin DOMAIN memes
         /\ \/ like_meme(caller, meme_id)
            \/ unlike_meme(caller, meme_id)
            \/ \E text \in Texts : comment_meme(caller, meme_id, text))
        => /\ outcome'.status = NotFound
           /\ UNCHANGED stores
           /\ meme_id \notin DOMAIN memes' \cup DOMAIN likes' \cup DOMAIN comments' ]_vars

C17_Witness ==
  /\ outcome = [op |-> "comment_meme", status |-> NotFound]
  /\ Cardinality(DOMAIN memes) = 1
  /\ DOMAIN likes = DOMAIN memes
  /\ DOMAIN comments = DOMAIN memes

\* C18: the registry holds no id twice, its elements are the keys of the
\* record store, and count() is the number of successful mints: it is 0 at
\* the start, a successful mint extends the registry by its id and no other
\* step changes it, so the old registry is always a prefix of the new one and
\* no record is ever removed.
IsMintStep ==
  /\ outcome' = [op |-> "mint_meme", status |-> Ok]
  /\ \E creator \in Accounts, id \in MemeIds, media_url \in MediaUrls, title \in Titles,
        description \in Descriptions, royalty \in Royalties :
       mint_meme(creator, id, media_url, title, description, royalty)

C18_RegistryAppendOnly ==
  /\ get_memes_count = 0
  /\ [](/\ \A i, j \in 1..Len(all_memes) : all_memes[i] = all_memes[j] => i = j
        /\ Range(all_memes) = DOMAIN memes
        /\ get_memes_count = Cardinality(DOMAIN memes))
  /\ [][ /\ Len(all_memes') >= Len(all_memes)
         /\ SubSeq(all_memes', 1, Len(all_memes)) = all_memes
         /\ DOMAIN memes \subseteq DOMAIN memes'
         /\ get_memes_count' = get_memes_count + (IF IsMintStep THEN 1 ELSE 0) ]_vars

C18_Witness ==
  /\ outcome = [op |-> "mint_meme", status |-> Ok]
  /\ get_memes_count = 2
  /\ all_memes[1] > all_memes[2]

\* C19: a successful unlike removes the caller from the like set and lowers
\* likes_count and the owner's total_likes by exactly 1; whenever some identity
\* is in a meme's like set, so that an unlike can succeed, likes_count and the
\* owner's total_likes are at least 1, and no counter is ever below zero.
C19_UnlikeDecrementsByOne ==
  /\ [](/\ \A id \in DOMAIN likes :
             likes[id] /= {}
               => /\ memes[id].likes_count >= 1
                  /\ memes[id].owner_id \in DOMAIN user_stats
                  /\ user_stats[memes[id].owner_id].total_likes >= 1
        /\ \A id \in DOMAIN memes : memes[id].likes_count >= 0 /\ memes[id].comments_count >= 0
        /\ \A a \in DOMAIN user_stats :
             user_stats[a].total_likes >= 0 /\ user_stats[a].total_comments >= 0)
  /\ [][ outcome' = [op |-> "unlike_meme", status |-> Ok] =>
           \A user \in Accounts, meme_id \in MemeIds :
             unlike_meme(user, meme_id)
               => /\ user \in likes[meme_id]
                  /\ likes'[meme_id] = likes[meme_id] \ {user}
                  /\ memes'[meme_id].likes_count = memes[meme_id].likes_count - 1
                  /\ user_stats'[memes[meme_id].owner_id].total_likes
                       = user_stats[memes[meme_id].owner_id].total_likes - 1 ]_vars

C19_Witness ==
  /\ outcome = [op |-> "unlike_meme", status |-> Ok]
  /\ \E id \in DOMAIN likes :
       /\ likes[id] = {}
       /\ memes[id].likes_count = 0
       /\ user_stats[memes[id].owner_id].total_likes = 1

\* C20: a minted record is never deleted and its id, owner_id, creator_id,
\* media_url, title, description and royalty never change; a like or unlike on
\* meme m changes at most m's likes_count, last_like_timestamp and like set and
\* the total_likes of m's owner; a comment on m changes at most m's
\* comments_count and comment log and the total_comments of m's owner; no
\* step changes a total_earnings value.
StatsOrZero(map, a) == IF a \in DOMAIN map THEN map[a] ELSE DefaultStats
SameEntry(old, new, k) == (k \in DOMAIN old <=> k \in DOMAIN new) /\ (k \in DOMAIN old => new[k] = old[k])

C20_Frame ==
  [][ /\ \A id \in DOMAIN memes :
           /\ id \in DOMAIN memes'
           /\ memes'[id].id = memes[id].id
           /\ memes'[id].owner_id = memes[id].owner_id
           /\ memes'[id].creator_id = memes[id].creator_id
           /\ memes'[id].media_url = memes[id].media_url
           /\ memes'[id].title = memes[id].title
           /\ memes'[id].description = memes[id].description
           /\ memes'[id].royalty = memes[id].royalty
      /\ \A a \in Accounts :
           StatsOrZero(user_stats', a).total_earnings = StatsOrZero(user_stats, a).total_earnings
      /\ outcome'.op \in {"like_meme", "unlike_meme"} =>
           \A m \in DOMAIN memes :
             \/ /\ \A other \in DOMAIN memes \ {m} : memes'[other] = memes[other]
                /\ DOMAIN memes' = DOMAIN memes
                /\ memes'[m].comments_count = memes[m].comments_count
                /\ \A other \in MemeIds \ {m} : SameEntry(likes, likes', other)
                /\ UNCHANGED <<all_memes, comments, listings>>
                /\ \A a \in Accounts \ {memes[m].owner_id} : SameEntry(user_stats, user_stats', a)
                /\ StatsOrZero(user_stats', memes[m].owner_id).total_comments
                     = StatsOrZero(user_stats, memes[m].owner_id).total_comments
             \/ ~ \E user \in Accounts : like_meme(user, m) \/ unlike_meme(user, m)
      /\ outcome'.op = "comment_meme" =>
           \A m \in DOMAIN memes :
             \/ /\ \A other \in DOMAIN memes \ {m} : memes'[other] = memes[other]
                /\ DOMAIN memes' = DOMAIN memes
                /\ memes'[m].likes_count = memes[m].likes_count
                /\ memes'[m].last_like_timestamp = memes[m].last_like_timestamp
                /\ \A other \in MemeIds \ {m} : SameEntry(comments, comments', other)
                /\ UNCHANGED <<all_memes, likes, listings>>
                /\ \A a \in Accounts \ {memes[m].owner_id} : SameEntry(user_stats, user_stats', a)
                /\ StatsOrZero(user_stats', memes[m].owner_id).total_likes
                     = StatsOrZero(user_stats, memes[m].owner_id).total_likes
             \/ ~ \E commenter \in Accounts, text \in Texts : comment_meme(commenter, m, text) ]_vars

C20_Witness ==
  /\ outcome = [op |-> "comment_meme", status |-> Ok]
  /\ Cardinality(DOMAIN memes) = 2
  /\ \E m \in DOMAIN comments, other \in DOMAIN likes :
       /\ m /= other
       /\ memes[m].owner_id /= memes[other].owner_id
       /\ memes[other].likes_count = 2
       /\ memes[m].comments_count = 1
       /\ memes[m].likes_count = 0
       /\ user_stats[memes[other].owner_id].total_comments = 0
       /\ user_stats[memes[m].owner_id].total_likes = 0
       /\ user_stats[memes[m].owner_id].total_earnings = 0

\* C15: a successful comment appends exactly one Comment, with the caller as
\* author, the trimmed input as text and the block time as timestamp, at the
\* end of the meme's log and raises comments_count and the owner's
\* total_comments by 1; in every step every log keeps its entries as a prefix;
\* every stored text is non-empty, starts and ends with a character that is
\* not white space and is at most 500 long.
C15_CommentAppends ==
  /\ [](\A m \in DOMAIN comments : \A i \in 1..Len(comments[m]) :
          LET text == comments[m][i].text
          IN /\ text /= <<>>
             /\ ~ is_whitespace(text[1].ch)
             /\ ~ is_whitespace(text[Len(text)].ch)
             /\ chars_count(text) <= 500
             /\ str_len(text) <= 500)
  /\ [][ /\ \A m \in DOMAIN comments :
              /\ m \in DOMAIN comments'
              /\ Len(comments'[m]) \in {Len(comments[m]), Len(comments[m]) + 1}
              /\ SubSeq(comments'[m], 1, Len(comments[m])) = comments[m]
         /\ outcome' = [op |-> "comment_meme", status |-> Ok] =>
              \A commenter \in Accounts, m \in DOMAIN memes, text \in LogTexts :
                comment_meme(commenter, m, text)
                  => LET log == IF m \in DOMAIN comments THEN comments[m] ELSE <<>>
                         owner == memes[m].owner_id
                     IN /\ Len(comments'[m]) = Len(log) + 1
                        /\ SubSeq(comments'[m], 1, Len(log)) = log
                        /\ comments'[m][Len(log) + 1].user_id = commenter
                        /\ comments'[m][Len(log) + 1].text = trim(text)
                        /\ comments'[m][Len(log) + 1].timestamp = block_timestamp
                        /\ memes'[m].comments_count = memes[m].comments_count + 1
                        /\ StatsOrZero(user_stats', owner).total_comments
                             = StatsOrZero(user_stats, owner).total_comments + 1 ]_vars

C15_Witness ==
  /\ outcome = [op |-> "comment_meme", status |-> Ok]
  /\ \E m \in DOMAIN comments :
       /\ Len(comments[m]) = 2
       /\ comments[m][1].timestamp = 0
       /\ comments[m][2].timestamp = 1
       /\ comments[m][1].user_id /= comments[m][2].user_id
       /\ chars_count(comments[m][1].text) = 500
       /\ chars_count(comments[m][2].text) = 1
       /\ memes[m].comments_count = 2
       /\ user_stats[memes[m].owner_id].total_comments = 2

\* ---------------------------------------------------------------- list_all
\* The limit a call asks for, as a number: 50 by default, never above 100.
AskedLimit(limit) ==
  IF limit = <<>> THEN 50
  ELSE IF u64_lt(<<100, 0, 0, 0>>, limit[1]) THEN 100 ELSE limit[1][1]

\* The records of registry slots [from_index, min(from_index + limit, count())),
\* in registry order: none when from_index is not below count().
SlotsOf(from_index, limit) ==
  LET count == Len(all_memes)
      from == IF from_index = <<>> THEN <<0, 0, 0, 0>> ELSE from_index[1]
  IN IF ~ u64_lt(from, <<count % Limb, count \div Limb, 0, 0>>) THEN <<>>
     ELSE LET first == from[1] + Limb * from[2]
              upto == IF first + AskedLimit(limit) < count THEN first + AskedLimit(limit) ELSE count
          IN [i \in 1..(upto - first) |-> memes[all_memes[first + i]]]

\* C12: every list_all(from_index, limit) call succeeds and returns exactly the
\* records of registry slots [from_index, min(from_index + limit, count())), with
\* from_index defaulting to 0 and limit defaulting to 50 and clamped to 100; so
\* it returns at most min(limit, 100) records and none when limit is 0.
C12_ListAllReturnsSlots ==
  [][ \A from_index \in FromInputs, limit \in LimitInputs :
        get_all_memes(from_index, limit) =>
          /\ page'.status = Ok
          /\ page'.result = SlotsOf(from_index, limit)
          /\ Len(page'.result) <= AskedLimit(limit)
          /\ (limit = <<U64(0)>> => page'.result = <<>>) ]_vars

\* C13: every list_all call whose from_index is at or past count(), whatever
\* from_index + limit comes to, succeeds and returns the empty sequence.
C13_OutOfRangeIsEmpty ==
  [][ \A from_index \in FromInputs \ {<<>>}, limit \in LimitInputs :
        ( /\ ~ u64_lt(from_index[1], U64(Len(all_memes)))
          /\ get_all_memes(from_index, limit) )
        => page' = [from_index |-> from_index, limit |-> limit, status |-> Ok, result |-> <<>>] ]_vars

\* What does hold of get_all_memes: a call whose from_index + limit stays
\* within u64 succeeds and returns the slots C12 names.
ListAllWhenSumFits ==
  [][ ( /\ page'.status /= "none"
        /\ ~ u64_add(unwrap_or(page'.from_index, U64(0)), U64(AskedLimit(page'.limit))).overflow
        /\ get_all_memes(page'.from_index, page'.limit) )
      => /\ page'.status = Ok
         /\ page'.result = SlotsOf(page'.from_index, page'.limit)
         /\ Len(page'.result) <= AskedLimit(page'.limit) ]_vars

\* A page that the clamp cut: 100 records out of a registry of more than 100.
ListAllClampReached ==
  /\ page.status = Ok
  /\ page.limit = <<U64(MaxLimit + 1)>>
  /\ Len(page.result) = MaxLimit
  /\ Len(all_memes) > MaxLimit

====
